---- MODULE Spec2Model ----
(***************************************************************************)
(* GATT server multiplexer of src/esp32/esp32_bt.c: the service list       *)
(* s_svcs, the connection list s_conns with the per-connection session     *)
(* lists, and the two stack callbacks esp32_bt_gatts_ev / esp32_bt_gap_ev. *)
(* Every stack event is one action (the stack serialises its callbacks).   *)
(* The calls a handler makes, in program order, are recorded in `out`; the *)
(* event it handled is recorded in `ev`.                                   *)
(***************************************************************************)
EXTENDS Integers, Sequences, FiniteSets, TLC

\* ------------------------------------------------------------------ bounds
MaxSvcs == 2        \* services that may be registered
MaxConns == 2       \* connection entries that may be open at once
MaxAttrs == 2       \* attributes of a service descriptor table

NULL == 0           \* the null pointer / "no service" / "no session"
ESP_GATT_DEF_BLE_MTU_SIZE == 23

GattIfs == {1}                      \* esp_gatt_if_t values seen in events
ConnIds == {1, 2}                   \* conn_id values seen in events
SvcUuids == {1, 2}                  \* service declaration values (identity)
SvcIds == 1 .. MaxSvcs              \* service entries, in order of allocation
\* The descriptor tables services register with: their declaration value and
\* attribute count. Two tables may carry the same declaration value.
SvcDescrs == {d \in [uuid : SvcUuids, n : 1 .. MaxAttrs] : d.uuid = 1 \/ d.n = 1}
ConnPtrs == 1 .. MaxConns           \* connection entries (heap slots)

VARIABLES
    s_svcs,             \* SLIST of esp32_bt_service_entry, head first
    s_conns,            \* SLIST of esp32_bt_connection_entry, head first
    sess_heap,          \* the allocated esp32_bt_session_entry objects
    s_gatts_registered, \* static bool s_gatts_registered
    s_gatts_if,         \* static esp_gatt_if_t s_gatts_if
    crashed,            \* the firmware faulted on a null pointer access
    pending,            \* stack: attribute tables requested and not yet reported
    ev,                 \* the event handled by the last step
    out                 \* the calls the last step made, in program order

vars == <<s_svcs, s_conns, sess_heap, s_gatts_registered, s_gatts_if,
          crashed, pending, ev, out>>

\* ----------------------------------------------------------------- helpers
Range(s) == {s[i] : i \in DOMAIN s}

RECURSIVE Flatten(_)
Flatten(ss) == IF ss = <<>> THEN <<>> ELSE Head(ss) \o Flatten(Tail(ss))

Reverse(s) == [i \in 1 .. Len(s) |-> s[Len(s) + 1 - i]]

\* One recorded call. op names the callee; kind, svc, conn and h are its
\* arguments (unused ones hold "" or 0); ret is what a handler returned.
CallRet(op, kind, svc, conn, h, ret) ==
    [op |-> op, kind |-> kind, svc |-> svc, conn |-> conn, h |-> h,
     ret |-> ret]

Call(op, kind, svc, conn, h) == CallRet(op, kind, svc, conn, h, FALSE)

\* cb(&sse->bs, ev, ep) of service svc, returning ret; conn = NULL is
\* cb(NULL, ev, ep). The return value is used for reads and writes only.
CbRet(kind, svc, conn, ret) == CallRet("cb", kind, svc, conn, 0, ret)

Cb(kind, svc, conn) == CbRet(kind, svc, conn, FALSE)

\* One recorded event. flag is is_connected / need_rsp / "cb is NULL" / "the
\* stack reported this table before"; adv is the value of
\* get_cfg()->bt.adv_enable while the event is handled.
Event(kind, gatt_if, conn_id, handle, flag, adv, status, uuid, handles) ==
    [kind |-> kind, gatt_if |-> gatt_if, conn_id |-> conn_id,
     handle |-> handle, flag |-> flag, adv |-> adv, status |-> status,
     uuid |-> uuid, handles |-> handles]

\* The service entry with allocation number id (none is ever removed, and
\* each new one is inserted at the head).
SvcAt(svcs, id) == svcs[Len(svcs) + 1 - id]
Svc(id) == SvcAt(s_svcs, id)

\* --------------------------------------------------------- lookup functions
\* Faulty variant: the declaration value is not compared; the entry at the
\* head is returned.
find_service_by_uuid_Head(svcs, k, uuid) ==
    IF k > Len(svcs) THEN NULL ELSE svcs[k].id

RECURSIVE find_service_by_uuid(_, _, _)
\* SLIST_FOREACH from entry k on: the first entry whose declaration value
\* equals uuid; NULL if none.
find_service_by_uuid(svcs, k, uuid) ==
    IF k > Len(svcs) THEN NULL
    ELSE IF svcs[k].uuid = uuid THEN svcs[k].id
    ELSE find_service_by_uuid(svcs, k + 1, uuid)

RECURSIVE find_connection(_, _, _, _)
\* SLIST_FOREACH from entry k on: the index in conns of the first entry with
\* this gatt_if and conn_id; NULL if none.
find_connection(conns, k, gatt_if, conn_id) ==
    IF k > Len(conns) THEN NULL
    ELSE IF conns[k].gatt_if = gatt_if /\ conns[k].conn_id = conn_id THEN k
    ELSE find_connection(conns, k + 1, gatt_if, conn_id)

\* The result of a scan: the service found (NULL for none), or a fault.
Found(se) == [fault |-> FALSE, se |-> se]
Fault == [fault |-> TRUE, se |-> NULL]

RECURSIVE find_service_by_attr_handle(_, _, _)
\* The possible results of the scan from entry k on. An entry whose
\* attr_handles is still NULL (no table stored for it) is read through the
\* null pointer: the access faults, or yields a value equal to the handle,
\* or yields values that differ from it.
find_service_by_attr_handle(svcs, k, attr_handle) ==
    IF k > Len(svcs) THEN {Found(NULL)}
    ELSE IF svcs[k].attr_handles = <<>>
         THEN {Fault, Found(svcs[k].id)}
              \cup find_service_by_attr_handle(svcs, k + 1, attr_handle)
    ELSE IF attr_handle \in Range(svcs[k].attr_handles)
         THEN {Found(svcs[k].id)}
    ELSE find_service_by_attr_handle(svcs, k + 1, attr_handle)

\* ------------------------------------------------------------------- Init
Init ==
    /\ s_svcs = <<>>
    /\ s_conns = <<>>
    /\ sess_heap = {}
    /\ s_gatts_registered = FALSE
    /\ s_gatts_if = 0
    /\ crashed = FALSE
    /\ pending = <<>>
    /\ ev = Event("INIT", 0, 0, 0, FALSE, FALSE, 0, 0, <<>>)
    /\ out = <<>>

\* ------------------------------------------------- esp32_bt_register_services
\* Faulty variant: the loop stops after the first entry it requests a table
\* for (break in place of continue).
ToRequest_FirstOnly(svcs, reg) ==
    LET req == IF reg THEN SelectSeq(svcs, LAMBDA se : ~se.registered)
               ELSE <<>>
    IN  IF req = <<>> THEN <<>> ELSE <<req[1]>>

\* The entries the loop requests a table for: none while the stack is not
\* registered, else every entry whose registered flag is clear, head first.
ToRequest(svcs, reg) ==
    IF reg THEN SelectSeq(svcs, LAMBDA se : ~se.registered) ELSE <<>>

\* Faulty variant: the loop does not mark the entries it requested.
register_services_NoFlag(svcs, reg) == svcs

\* The list after the loop: every entry visited has registered = true.
register_services(svcs, reg) ==
    IF reg THEN [k \in DOMAIN svcs |-> [svcs[k] EXCEPT !.registered = TRUE]]
    ELSE svcs

\* The esp_ble_gatts_create_attr_tab calls of the loop, in order.
CreateCalls(svcs, reg) ==
    LET req == ToRequest(svcs, reg)
    IN  [k \in DOMAIN req |->
            Call("create_attr_tab", "", req[k].id, 0, req[k].num_attrs)]

\* The handles the stack assigns to the table requested for entry id: a
\* block of its own for every table.
StackHandles(id, n) == [i \in 1 .. n |-> (id - 1) * MaxAttrs + i]

\* The requests the stack accepted; the calls for the services in `fails`
\* returned an error (the result r is only logged).
Accepted(svcs, reg, fails) ==
    LET req == SelectSeq(ToRequest(svcs, reg), LAMBDA se : se.id \notin fails)
    IN  [k \in DOMAIN req |->
            [uuid |-> req[k].uuid,
             handles |-> StackHandles(req[k].id, req[k].num_attrs)]]

\* ------------------------------------------- mgos_bt_gatts_register_service
RegisterService(uuid, num_attrs, cb_null, fails) ==
    /\ ~crashed
    /\ Len(s_svcs) < MaxSvcs
    /\ ev' = Event("REGISTER_SERVICE", 0, 0, 0, cb_null, FALSE, 0, uuid, <<>>)
    /\ IF cb_null
       THEN /\ fails = {}
            /\ out' = <<>>
            /\ UNCHANGED <<s_svcs, pending>>
       ELSE LET se == [id |-> Len(s_svcs) + 1, uuid |-> uuid,
                       num_attrs |-> num_attrs, registered |-> FALSE,
                       attr_handles |-> <<>>]
                svcs == <<se>> \o s_svcs
            IN  /\ fails \subseteq
                       {x.id : x \in Range(ToRequest(svcs, s_gatts_registered))}
                /\ s_svcs' = register_services(svcs, s_gatts_registered)
                /\ out' = CreateCalls(svcs, s_gatts_registered)
                /\ pending' = pending \o Accepted(svcs, s_gatts_registered, fails)
    /\ UNCHANGED <<s_conns, sess_heap, s_gatts_registered, s_gatts_if,
                   crashed>>

\* -------------------------------------------------------- ESP_GATTS_REG_EVT
RegEvt(gatt_if, fails) ==
    /\ ~crashed
    /\ fails \subseteq {x.id : x \in Range(ToRequest(s_svcs, TRUE))}
    /\ ev' = Event("REG", gatt_if, 0, 0, FALSE, FALSE, 0, 0, <<>>)
    /\ s_gatts_if' = gatt_if
    /\ s_gatts_registered' = TRUE
    /\ s_svcs' = register_services(s_svcs, TRUE)
    /\ out' = <<Call("set_device_name", "", 0, 0, 0),
                Call("config_adv_data", "", 0, 0, 0)>>
              \o CreateCalls(s_svcs, TRUE)
    /\ pending' = pending \o Accepted(s_svcs, TRUE, fails)
    /\ UNCHANGED <<s_conns, sess_heap, crashed>>

\* --------------------------------------------- ESP_GATTS_CREAT_ATTR_TAB_EVT
\* Faulty variant: the handle count of the event is not compared with the
\* attribute count of the service.
TabTarget_AnyCount(svcs, status, uuid, num_handle) ==
    IF status # 0 THEN NULL ELSE find_service_by_uuid(svcs, 1, uuid)

\* The service the event is applied to, NULL when it is ignored.
TabTarget(svcs, status, uuid, num_handle) ==
    LET se == find_service_by_uuid(svcs, 1, uuid)
    IN  IF status # 0 THEN NULL
        ELSE IF se = NULL THEN NULL
        ELSE IF SvcAt(svcs, se).num_attrs # num_handle THEN NULL
        ELSE se

\* Faulty variant: the event's handles are appended to the list already
\* stored instead of replacing it.
StoreHandles_Append(old, handles) == old \o handles

\* calloc(num_handle) + memcpy: the list is replaced by the event's handles.
StoreHandles(old, handles) == handles

CreatAttrTabEvt(status, uuid, handles, again) ==
    LET se == TabTarget(s_svcs, status, uuid, Len(handles))
    IN  /\ ev' = Event("CREAT_ATTR_TAB", s_gatts_if, 0, 0, again, FALSE, status,
                       uuid, handles)
        /\ IF se = NULL
           THEN /\ out' = <<>>
                /\ UNCHANGED s_svcs
           ELSE LET k == Len(s_svcs) + 1 - se
                    hh == StoreHandles(s_svcs[k].attr_handles, handles)
                IN  /\ s_svcs' = [s_svcs EXCEPT ![k].attr_handles = hh]
                    /\ out' = <<Cb("CREAT_ATTR_TAB", se, NULL),
                                Call("start_service", "", se, 0, hh[1])>>
        /\ UNCHANGED <<s_conns, sess_heap, s_gatts_registered, s_gatts_if,
                       crashed>>

\* The stack answers the oldest request: with the table's handles, or with a
\* failure status.
StackTabCreated(ok) ==
    /\ ~crashed
    /\ pending # <<>>
    /\ LET req == Head(pending)
       IN  IF ok THEN CreatAttrTabEvt(0, req.uuid, req.handles, FALSE)
           ELSE CreatAttrTabEvt(1, req.uuid, <<>>, FALSE)
    /\ pending' = Tail(pending)

\* The stack reports again the table-created event whose handles service id
\* has stored.
StackTabReplay(id) ==
    /\ ~crashed
    /\ id \in 1 .. Len(s_svcs)
    /\ Svc(id).attr_handles # <<>>
    /\ CreatAttrTabEvt(0, Svc(id).uuid, Svc(id).attr_handles, TRUE)
    /\ UNCHANGED pending

\* The stack reports a table whose declaration value no service of the
\* registry carries.
StackTabUnknown(uuid, num_handle) ==
    /\ ~crashed
    /\ s_gatts_registered
    /\ find_service_by_uuid(s_svcs, 1, uuid) = NULL
    /\ CreatAttrTabEvt(0, uuid, [i \in 1 .. num_handle |-> i], FALSE)
    /\ UNCHANGED pending

\* ---------------------------------------------------- ESP_GATTS_CONNECT_EVT
\* calloc of a connection entry: the lowest slot no open connection occupies.
AllocConn(conns) ==
    CHOOSE p \in ConnPtrs :
        /\ p \notin {c.ptr : c \in Range(conns)}
        /\ \A q \in ConnPtrs :
               q \notin {c.ptr : c \in Range(conns)} => p <= q

\* Faulty variant: sessions are created only for the services whose table
\* has been created.
NewSessions_StartedOnly(svcs) ==
    LET started == SelectSeq(svcs, LAMBDA se : se.attr_handles # <<>>)
    IN  Reverse([k \in DOMAIN started |-> started[k].id])

\* The session list built by the loop over s_svcs: each new session is
\* inserted at the head, so the list is in the reverse of the service order.
NewSessions(svcs) == Reverse([k \in DOMAIN svcs |-> svcs[k].id])

\* Faulty variant: the connection entry is inserted into s_conns before the
\* session loop runs.
ConnectCalls_InsertFirst(svcs, ptr) ==
    <<Call("insert_conn", "", 0, ptr, 0)>>
    \o Flatten([k \in DOMAIN svcs |->
                   <<Call("insert_sess", "", svcs[k].id, ptr, 0),
                     Cb("CONNECT", svcs[k].id, ptr)>>])

\* The calls of the session loop, in order, and last the insertion of the
\* connection entry into s_conns.
ConnectCalls(svcs, ptr) ==
    Flatten([k \in DOMAIN svcs |->
                <<Call("insert_sess", "", svcs[k].id, ptr, 0),
                  Cb("CONNECT", svcs[k].id, ptr)>>])
    \o <<Call("insert_conn", "", 0, ptr, 0)>>

\* The session entry allocated for service se on connection entry ptr;
\* notified counts the connect notifications its handler got in `made`.
Session(ptr, se, made) ==
    [bc |-> ptr, se |-> se,
     notified |-> Len(SelectSeq(made, LAMBDA c : c = Cb("CONNECT", se, ptr)))]

\* Faulty variant: advertising is restarted whatever the flag says.
AdvCalls_Ungated(enabled) == <<Call("start_advertising", "", 0, 0, 0)>>

\* if (get_cfg()->bt.adv_enable) esp_ble_gap_start_advertising(...)
AdvCalls(enabled) ==
    IF enabled THEN <<Call("start_advertising", "", 0, 0, 0)>> ELSE <<>>

\* The stack delivers connection events to a registered application only,
\* and holds at most MaxConns links open.
ConnectEvt(gatt_if, conn_id, is_connected, adv_enable) ==
    /\ ~crashed
    /\ s_gatts_registered
    /\ Len(s_conns) < MaxConns
    /\ ev' = Event("CONNECT", gatt_if, conn_id, 0, is_connected, adv_enable, 0,
                   0, <<>>)
    /\ IF ~is_connected
       THEN /\ ~adv_enable          \* the flag is not read on this path
            /\ out' = <<>>
            /\ UNCHANGED <<s_conns, sess_heap>>
       ELSE LET ptr == AllocConn(s_conns)
                ce == [ptr |-> ptr, gatt_if |-> gatt_if, conn_id |-> conn_id,
                       mtu |-> ESP_GATT_DEF_BLE_MTU_SIZE,
                       sessions |-> NewSessions(s_svcs)]
            IN  /\ out' = <<Call("update_conn_params", "", 0, 0, 0)>>
                          \o AdvCalls(adv_enable)
                          \o ConnectCalls(s_svcs, ptr)
                /\ s_conns' = <<ce>> \o s_conns
                /\ sess_heap' = sess_heap \cup
                       {Session(ptr, id, ConnectCalls(s_svcs, ptr)) :
                            id \in Range(ce.sessions)}
    /\ UNCHANGED <<s_svcs, s_gatts_registered, s_gatts_if, crashed, pending>>

\* ------------------------------------------------- ESP_GATTS_DISCONNECT_EVT
\* Faulty variant: each session is freed before its handler is called.
DisconnectCalls_FreeFirst(ce) ==
    Flatten([k \in DOMAIN ce.sessions |->
                <<Call("free_sess", "", ce.sessions[k], ce.ptr, 0),
                  Cb("DISCONNECT", ce.sessions[k], ce.ptr)>>])
    \o <<Call("remove_conn", "", 0, ce.ptr, 0),
         Call("free_conn", "", 0, ce.ptr, 0)>>

\* Faulty variant: only the session at the head of the list is notified; all
\* are freed.
DisconnectCalls_HeadOnly(ce) ==
    Flatten([k \in DOMAIN ce.sessions |->
                IF k = 1
                THEN <<Cb("DISCONNECT", ce.sessions[k], ce.ptr),
                       Call("free_sess", "", ce.sessions[k], ce.ptr, 0)>>
                ELSE <<Call("free_sess", "", ce.sessions[k], ce.ptr, 0)>>])
    \o <<Call("remove_conn", "", 0, ce.ptr, 0),
         Call("free_conn", "", 0, ce.ptr, 0)>>

\* SLIST_FOREACH_SAFE over the sessions of ce: each session's handler is
\* called and the session freed, then the next; last the connection entry is
\* unlinked and freed.
DisconnectCalls(ce) ==
    Flatten([k \in DOMAIN ce.sessions |->
                <<Cb("DISCONNECT", ce.sessions[k], ce.ptr),
                  Call("free_sess", "", ce.sessions[k], ce.ptr, 0)>>])
    \o <<Call("remove_conn", "", 0, ce.ptr, 0),
         Call("free_conn", "", 0, ce.ptr, 0)>>

\* The session objects the loop frees.
FreedSessions(ce) ==
    {x \in sess_heap : x.bc = ce.ptr /\ x.se \in Range(ce.sessions)}

\* SLIST_REMOVE of the entry at index k.
RemoveAt(s, k) == SubSeq(s, 1, k - 1) \o SubSeq(s, k + 1, Len(s))

DisconnectEvt(gatt_if, conn_id, adv_enable) ==
    /\ ~crashed
    /\ s_gatts_registered
    /\ ev' = Event("DISCONNECT", gatt_if, conn_id, 0, FALSE, adv_enable, 0, 0,
                   <<>>)
    /\ LET k == find_connection(s_conns, 1, gatt_if, conn_id)
       IN  IF k = NULL
           THEN /\ out' = AdvCalls(adv_enable)
                /\ UNCHANGED <<s_conns, sess_heap>>
           ELSE /\ out' = DisconnectCalls(s_conns[k]) \o AdvCalls(adv_enable)
                /\ sess_heap' = sess_heap \ FreedSessions(s_conns[k])
                /\ s_conns' = RemoveAt(s_conns, k)
    /\ UNCHANGED <<s_svcs, s_gatts_registered, s_gatts_if, crashed, pending>>

\* ------------------------------------- ESP_GATTS_READ_EVT, ESP_GATTS_WRITE_EVT
\* The sessions of ce the loop calls the handler of: those bound to se.
Routed(ce, se) == SelectSeq(ce.sessions, LAMBDA x : x = se)

\* Faulty variant: the dispatcher answers only requests a handler accepted.
Response_Silent(kind, ret) ==
    IF kind = "WRITE" /\ ret THEN <<Call("send_response", "OK", 0, 0, 0)>>
    ELSE <<>>

\* The response the dispatcher itself sends once the handlers have run.
Response(kind, ret) ==
    IF kind = "READ"
    THEN IF ~ret THEN <<Call("send_response", "READ_NOT_PERMIT", 0, 0, 0)>>
         ELSE <<>>
    ELSE IF ret THEN <<Call("send_response", "OK", 0, 0, 0)>>
         ELSE <<Call("send_response", "WRITE_NOT_PERMIT", 0, 0, 0)>>

\* The firmware faults: the handler does not return and the registries, held
\* in RAM, are lost.
Fatal ==
    /\ crashed' = TRUE
    /\ s_svcs' = <<>>
    /\ s_conns' = <<>>
    /\ sess_heap' = {}
    /\ s_gatts_registered' = FALSE
    /\ s_gatts_if' = 0
    /\ pending' = <<>>

\* Faulty variant: the request is routed whether or not the peer asked for a
\* response.
ResponseNeeded_Always(need_rsp) == TRUE

\* if (!p->need_rsp) break;
ResponseNeeded(need_rsp) == need_rsp

\* kind is "READ" or "WRITE"; cb_ret is what the service handler returns.
AccessEvt(kind, gatt_if, conn_id, handle, need_rsp, cb_ret) ==
    LET Same == UNCHANGED <<s_svcs, s_conns, sess_heap, s_gatts_registered,
                            s_gatts_if, crashed, pending>>
    IN
    /\ ~crashed
    /\ s_gatts_registered
    /\ ev' = Event(kind, gatt_if, conn_id, handle, need_rsp, FALSE, 0, 0, <<>>)
    /\ IF ~ResponseNeeded(need_rsp)
       THEN /\ cb_ret = FALSE
            /\ out' = <<>>
            /\ Same
       ELSE LET k == find_connection(s_conns, 1, gatt_if, conn_id)
            IN  IF k = NULL
                THEN /\ cb_ret = FALSE
                     /\ out' = Response(kind, FALSE)
                     /\ Same
                ELSE \E r \in find_service_by_attr_handle(s_svcs, 1, handle) :
                        IF r.fault
                        THEN /\ cb_ret = FALSE
                             /\ out' = <<>>
                             /\ Fatal
                        ELSE LET ss == Routed(s_conns[k], r.se)
                                 ret == IF ss = <<>> THEN FALSE ELSE cb_ret
                             IN  /\ ss = <<>> => cb_ret = FALSE
                                 /\ out' = [i \in DOMAIN ss |->
                                               CbRet(kind, ss[i], s_conns[k].ptr,
                                                     cb_ret)]
                                           \o Response(kind, ret)
                                 /\ Same

\* ------------------------------- ESP_GATTS_CONNECT_EVT, allocation failure
\* ESP_GATTS_CONNECT_EVT when a calloc returns NULL. Neither result is
\* checked. failed = 0: the connection entry (line 326); failed = k: the
\* session entry of the k-th service of s_svcs (line 335). The first store
\* through the null pointer (line 327, line 336) either traps, or lands in
\* low memory and the handler runs on:
\*  - with ce = NULL the sessions hang off low memory, and inserting NULL
\*    at the head of s_conns cuts off every connection that was in it;
\*  - with sse = NULL the insertion at the head of ce->sessions cuts off the
\*    sessions linked before, and the handler of the service is called with
\*    a null session.
\* The event recorded has status = 1 (out of memory) and handle = failed.
ConnectAllocFail(gatt_if, conn_id, adv_enable, failed, traps) ==
    LET ptr == IF failed = 0 THEN NULL ELSE AllocConn(s_conns)
        before == SubSeq(s_svcs, 1, failed - 1)
        after == SubSeq(s_svcs, failed + 1, Len(s_svcs))
        first == <<Call("update_conn_params", "", 0, 0, 0)>>
                 \o AdvCalls(adv_enable)
        loop == Flatten([k \in DOMAIN s_svcs |->
                    <<Call("insert_sess", "", IF k = failed THEN NULL
                                              ELSE s_svcs[k].id, ptr, 0),
                      Cb("CONNECT", s_svcs[k].id,
                         IF k = failed THEN NULL ELSE ptr)>>])
        made == loop \o <<Call("insert_conn", "", 0, ptr, 0)>>
        ce == [ptr |-> ptr, gatt_if |-> gatt_if, conn_id |-> conn_id,
               mtu |-> ESP_GATT_DEF_BLE_MTU_SIZE,
               sessions |-> NewSessions(after)]
    IN
    /\ ~crashed
    /\ s_gatts_registered
    /\ Len(s_conns) < MaxConns
    /\ failed \in 0 .. Len(s_svcs)
    /\ ev' = Event("CONNECT", gatt_if, conn_id, failed, TRUE, adv_enable, 1, 0,
                   <<>>)
    /\ IF traps
       THEN /\ out' = first \o (IF failed = 0 THEN <<>>
                                ELSE SubSeq(loop, 1, 2 * (failed - 1)))
            /\ Fatal
       ELSE /\ out' = first \o made
            /\ s_conns' = IF failed = 0 THEN <<>> ELSE <<ce>> \o s_conns
            /\ sess_heap' = sess_heap \cup
                   {Session(ptr, se.id, made) :
                        se \in Range(before) \cup Range(after)}
            /\ UNCHANGED <<s_svcs, s_gatts_registered, s_gatts_if, crashed,
                           pending>>

\* ------------------------------------------------------------ esp32_bt_gap_ev
GapEvt(kind, adv_enable) ==
    /\ ~crashed
    /\ s_gatts_registered
    /\ ev' = Event(kind, 0, 0, 0, FALSE, adv_enable, 0, 0, <<>>)
    /\ out' = IF kind = "ADV_DATA_SET_COMPLETE"
              THEN <<Call("start_advertising", "", 0, 0, 0)>>
              ELSE <<>>
    /\ UNCHANGED <<s_svcs, s_conns, sess_heap, s_gatts_registered, s_gatts_if,
                   crashed, pending>>

\* --------------------------------------------------------------------- Next
\* The handles peers address: those some service has stored, and one the
\* stack never assigned.
AccessHandles ==
    UNION {Range(se.attr_handles) : se \in Range(s_svcs)}
    \cup {MaxSvcs * MaxAttrs + 1}

Next ==
    \/ \E d \in SvcDescrs, c \in BOOLEAN, f \in SUBSET SvcIds :
          RegisterService(d.uuid, d.n, c, f)
    \/ \E g \in GattIfs, f \in SUBSET SvcIds : RegEvt(g, f)
    \/ \E ok \in BOOLEAN : StackTabCreated(ok)
    \/ \E id \in SvcIds : StackTabReplay(id)
    \/ \E u \in SvcUuids, n \in 1 .. MaxAttrs : StackTabUnknown(u, n)
    \/ \E g \in GattIfs, c \in ConnIds, b \in BOOLEAN, a \in BOOLEAN :
          ConnectEvt(g, c, b, a)
    \/ \E g \in GattIfs, c \in ConnIds, a \in BOOLEAN : DisconnectEvt(g, c, a)
    \/ \E kind \in {"READ", "WRITE"}, g \in GattIfs, c \in ConnIds,
          h \in AccessHandles, need \in BOOLEAN, r \in BOOLEAN :
          AccessEvt(kind, g, c, h, need, r)
    \/ \E kind \in {"ADV_DATA_SET_COMPLETE", "ADV_STOP_COMPLETE"},
          a \in BOOLEAN : GapEvt(kind, a)

Spec == Init /\ [][Next]_vars

\* Registration, connects and disconnects on a heap that may run out while a
\* connect is handled.
NextAlloc ==
    \/ \E d \in {x \in SvcDescrs : x.n = 1}, c \in BOOLEAN :
          RegisterService(d.uuid, d.n, c, {})
    \/ \E g \in GattIfs : RegEvt(g, {})
    \/ \E g \in GattIfs, c \in ConnIds, b \in BOOLEAN, a \in BOOLEAN :
          ConnectEvt(g, c, b, a)
    \/ \E g \in GattIfs, c \in ConnIds, a \in BOOLEAN : DisconnectEvt(g, c, a)
    \/ \E g \in GattIfs, c \in ConnIds, a \in BOOLEAN, k \in 0 .. MaxSvcs,
          t \in BOOLEAN : ConnectAllocFail(g, c, a, k, t)

SpecAlloc == Init /\ [][NextAlloc]_vars

\* ============================================================== properties
\* Every property below speaks about one step: the registries before it
\* (unprimed), the event it handled (ev') and the calls it made (out').

Ops(o, op) == SelectSeq(o, LAMBDA c : c.op = op)
Cbs(o, kind) == SelectSeq(o, LAMBDA c : c.op = "cb" /\ c.kind = kind)
Count(o, c) == Cardinality({i \in DOMAIN o : o[i] = c})
Ptrs(conns) == {c.ptr : c \in Range(conns)}
SessionsOf(heap, ptr) == {x \in heap : x.bc = ptr}

\* The step handled a connect event of an established link.
ConnectStep == ev'.kind = "CONNECT" /\ ev'.flag
\* The connection entries whose identity is that of the event handled.
Matching == {k \in DOMAIN s_conns : /\ s_conns[k].gatt_if = ev'.gatt_if
                                    /\ s_conns[k].conn_id = ev'.conn_id}
\* The connection the event addresses: the first matching entry.
Addressed == s_conns[CHOOSE k \in Matching : \A m \in Matching : k <= m]
\* The step handled a disconnect event of a connection in the registry.
DisconnectStep == ev'.kind = "DISCONNECT" /\ Matching # {}
\* The step handled a read or write event that requires a response.
AccessStep == ev'.kind \in {"READ", "WRITE"} /\ ev'.flag
\* The step handled a table-created event that reports success.
TabStep == ev'.kind = "CREAT_ATTR_TAB" /\ ev'.status = 0

\* ---------------------------------------------------------------------- C1
C1_ConnectCreates ==
    ConnectStep =>
        LET ce == Head(s_conns')
        IN  /\ s_conns' = <<ce>> \o s_conns
            /\ ce.gatt_if = ev'.gatt_if /\ ce.conn_id = ev'.conn_id
            /\ ce.ptr \notin Ptrs(s_conns)
            /\ Len(ce.sessions) = Len(s_svcs)
            /\ \A id \in 1 .. Len(s_svcs) :
                   Cardinality({k \in DOMAIN ce.sessions : ce.sessions[k] = id}) = 1
            /\ {x.se : x \in SessionsOf(sess_heap', ce.ptr)} = 1 .. Len(s_svcs)
            /\ SessionsOf(sess_heap, ce.ptr) = {}

C1_SessionsFixed ==
    \A c \in Range(s_conns), d \in Range(s_conns') :
        c.ptr = d.ptr =>
            /\ d.sessions = c.sessions
            /\ SessionsOf(sess_heap', c.ptr) = SessionsOf(sess_heap, c.ptr)

C1_DisconnectDestroys ==
    DisconnectStep =>
        /\ Addressed.ptr \notin Ptrs(s_conns')
        /\ SessionsOf(sess_heap', Addressed.ptr) = {}

\* Every session entry allocated belongs to a connection of the registry.
C1_NoOrphan ==
    \A x \in sess_heap' :
        \E c \in Range(s_conns') : c.ptr = x.bc /\ x.se \in Range(c.sessions)

\* C1: a connect creates, on the new connection, exactly one session for
\* each service in the registry at that moment and no other; the session set
\* of a connection never changes while the connection is in the registry;
\* after the disconnect of a connection no session references it.
C1_Sessions ==
    [][/\ C1_ConnectCreates
       /\ C1_SessionsFixed
       /\ C1_DisconnectDestroys
       /\ C1_NoOrphan]_vars

\* A connection that has fewer sessions than there are services (a service
\* was registered after it opened) is still open after another connection,
\* with sessions, was disconnected.
C1_Witness ==
    /\ ev.kind = "DISCONNECT"
    /\ Ops(out, "free_sess") # <<>>
    /\ \E c \in Range(s_conns) :
           /\ c.sessions # <<>>
           /\ Len(c.sessions) < Len(s_svcs)

\* ---------------------------------------------------------------------- C2
\* The services whose stored handle list holds the handle addressed.
Owners == {se.id : se \in {x \in Range(s_svcs) :
                              ev'.handle \in Range(x.attr_handles)}}
\* Those of them that have a session on the connection addressed.
Bound ==
    IF Matching = {} THEN {}
    ELSE {id \in Owners : id \in Range(Addressed.sessions)}
\* The handler of some service returned true during the step.
HandlerAccepted == \E i \in DOMAIN out' : out'[i].op = "cb" /\ out'[i].ret
DenyStatus ==
    IF ev'.kind = "READ" THEN "READ_NOT_PERMIT" ELSE "WRITE_NOT_PERMIT"

\* C2: a read or write that requires a response, on connection C, for a
\* handle in the handle list of service S, invokes the handler of S once,
\* with the session of (C, S), and no other handler; when there is no such
\* session no handler is invoked and the deny response is sent.
C2_Routing ==
    [][AccessStep =>
          IF Bound # {}
          THEN \A id \in Bound :
                   /\ Len(Ops(out', "cb")) = 1
                   /\ Ops(out', "cb")[1].kind = ev'.kind
                   /\ Ops(out', "cb")[1].svc = id
                   /\ Ops(out', "cb")[1].conn = Addressed.ptr
          ELSE /\ Ops(out', "cb") = <<>>
               /\ Ops(out', "send_response")
                      = <<Call("send_response", DenyStatus, 0, 0, 0)>>]_vars

\* ---------------------------------------------------------------------- C3
\* C3: a write that requires a response gets exactly one response from the
\* dispatcher: "ok" if a handler was invoked and returned true, "write not
\* permitted" otherwise.
C3_WriteResponse ==
    [][(AccessStep /\ ev'.kind = "WRITE") =>
          Ops(out', "send_response")
              = <<Call("send_response",
                       IF HandlerAccepted THEN "OK" ELSE "WRITE_NOT_PERMIT",
                       0, 0, 0)>>]_vars

\* ---------------------------------------------------------------------- C4
\* C4: for a read that requires a response the dispatcher sends nothing when
\* the routed handler returned true and exactly one "read not permitted"
\* otherwise; a read of a handle no service has stored invokes no handler
\* and gets exactly one "read not permitted".
C4_ReadResponse ==
    [][(AccessStep /\ ev'.kind = "READ") =>
          /\ Ops(out', "send_response")
                 = IF HandlerAccepted THEN <<>>
                   ELSE <<Call("send_response", "READ_NOT_PERMIT", 0, 0, 0)>>
          /\ Owners = {} =>
                 /\ Ops(out', "cb") = <<>>
                 /\ Len(Ops(out', "send_response")) = 1]_vars

\* ---------------------------------------------------------------------- C5
CreateCall(se) == Call("create_attr_tab", "", se.id, 0, se.num_attrs)

\* Once the stack is registered a table is requested for every service, be
\* it registered before (requested while REG is handled) or after (requested
\* by the registration call itself).
C5_Requested ==
    /\ ev'.kind = "REG" =>
           \A se \in Range(s_svcs) :
               ~se.registered => Count(out', CreateCall(se)) = 1
    /\ (ev'.kind = "REGISTER_SERVICE" /\ ~ev'.flag) =>
           /\ Len(s_svcs') = Len(s_svcs) + 1
           /\ Count(out', CreateCall(Head(s_svcs')))
                  = IF s_gatts_registered THEN 1 ELSE 0
    /\ s_gatts_registered' => \A se \in Range(s_svcs') : se.registered

\* The event reports the table of service se: its UUID and as many handles
\* as se has attributes.
Reports(se) == se.uuid = ev'.uuid /\ se.num_attrs = Len(ev'.handles)

\* Service se is started by the step: the handles are stored, the handler
\* gets the table-ready notification with no session, and the service is
\* started with the first handle.
StartedBy(se) ==
    /\ SvcAt(s_svcs', se.id).attr_handles = ev'.handles
    /\ out' = <<Cb("CREAT_ATTR_TAB", se.id, NULL),
                Call("start_service", "", se.id, 0, ev'.handles[1])>>

\* No service registered later than se carries the UUID of se.
FirstMatch(se) == \A x \in Range(s_svcs) : x.uuid = se.uuid => x.id <= se.id

\* C5 as stated: in both orders the table is requested once the stack is
\* registered, and a successful table-created event with the UUID and the
\* attribute count of a service starts that service.
C5_SameTerminalState ==
    [][/\ C5_Requested
       /\ TabStep => \A se \in Range(s_svcs) : Reports(se) => StartedBy(se)]_vars

\* C5, amended: the same, for the service that is the first match of its
\* UUID; a service hidden behind a later one of the same UUID is left as it
\* was.
C5_FirstMatchStarted ==
    [][/\ C5_Requested
       /\ TabStep =>
              \A se \in Range(s_svcs) :
                  /\ (Reports(se) /\ FirstMatch(se)) => StartedBy(se)
                  /\ ~FirstMatch(se) => SvcAt(s_svcs', se.id) = se]_vars

\* Two services of different UUIDs, both requested from the stack, and the
\* table-created event of one of them was applied.
C5_Witness ==
    /\ ev.kind = "CREAT_ATTR_TAB"
    /\ Len(out) = 2
    /\ Len(s_svcs) = 2
    /\ \A se \in Range(s_svcs) : se.registered
    /\ s_svcs[1].uuid # s_svcs[2].uuid
    /\ \E se \in Range(s_svcs) : se.attr_handles = ev.handles

\* ---------------------------------------------------------------------- C6
\* C6: a table-created event that repeats the UUID, count and handles a
\* service has already stored leaves that service's handle list as it was,
\* with exactly num_attrs entries; no list ever has another length.
C6_ReplayKeepsHandles ==
    [][/\ TabStep =>
              \A se \in Range(s_svcs) :
                  (Reports(se) /\ se.attr_handles = ev'.handles) =>
                      /\ SvcAt(s_svcs', se.id).attr_handles = se.attr_handles
                      /\ Len(SvcAt(s_svcs', se.id).attr_handles) = se.num_attrs
       /\ \A se \in Range(s_svcs') :
              Len(se.attr_handles) \in {0, se.num_attrs}]_vars

\* A table of more than one handle was reported again and applied to the
\* service that had stored it.
C6_Witness ==
    /\ ev.kind = "CREAT_ATTR_TAB"
    /\ ev.flag
    /\ out # <<>>
    /\ Len(ev.handles) > 1
    /\ out[1].svc \in 1 .. Len(s_svcs)
    /\ Svc(out[1].svc).attr_handles = ev.handles

\* ---------------------------------------------------------------------- C7
\* C7: a service that has had its table applied (its handle list is stored)
\* gets no further table-ready notification and no further start-service.
C7_AppliedOnce ==
    [][\A se \in Range(s_svcs) :
           se.attr_handles # <<>> =>
               \A i \in DOMAIN out' :
                   ~(/\ out'[i].svc = se.id
                     /\ \/ out'[i].op = "start_service"
                        \/ out'[i].op = "cb" /\ out'[i].kind = "CREAT_ATTR_TAB")]_vars

\* ---------------------------------------------------------------------- C8
C8_Connect ==
    ConnectStep =>
        LET ptr == Head(s_conns').ptr
        IN  /\ \A id \in 1 .. Len(s_svcs) :
                   Count(out', Cb("CONNECT", id, ptr)) = 1
            /\ Len(Cbs(out', "CONNECT")) = Len(s_svcs)
            /\ \A x \in SessionsOf(sess_heap', ptr) : x.notified = 1

C8_Disconnect ==
    DisconnectStep =>
        LET ptr == Addressed.ptr
            mine == SessionsOf(sess_heap, ptr)
        IN  /\ \A x \in mine :
                   /\ Count(out', Cb("DISCONNECT", x.se, ptr)) = 1
                   /\ Count(out', Call("free_sess", "", x.se, ptr, 0)) = 1
                   /\ x \notin sess_heap'
            /\ Len(Cbs(out', "DISCONNECT")) = Cardinality(mine)
            /\ Len(Ops(out', "free_sess")) = Cardinality(mine)
            /\ ptr \notin Ptrs(s_conns')
            /\ Len(s_conns') = Len(s_conns) - 1

\* A connect notification goes to a session created by the step; a
\* disconnect notification goes to a session that exists, has had its
\* connect notification, and is destroyed by the step.
C8_NoStray ==
    \A i \in DOMAIN out' :
        out'[i].op = "cb" =>
            /\ out'[i].kind = "CONNECT" =>
                   /\ ConnectStep
                   /\ SessionsOf(sess_heap, out'[i].conn) = {}
            /\ out'[i].kind = "DISCONNECT" =>
                   \E x \in sess_heap :
                       /\ x.bc = out'[i].conn /\ x.se = out'[i].svc
                       /\ x.notified = 1
                       /\ x \notin sess_heap'

\* C8: a connect delivers exactly one connect notification per service in
\* the registry; the disconnect of that connection delivers exactly one
\* disconnect notification to each of its sessions, destroys them and removes
\* the connection; no session is notified of a disconnect without having
\* been notified of its connect, nor twice of either.
C8_Balanced == [][C8_Connect /\ C8_Disconnect /\ C8_NoStray]_vars

\* A connection with two sessions was disconnected while another connection
\* stays open.
C8_Witness ==
    /\ ev.kind = "DISCONNECT"
    /\ Len(Cbs(out, "DISCONNECT")) = 2
    /\ s_conns # <<>>
    /\ sess_heap # {}

\* ---------------------------------------------------------------------- C9
C9_InsertLast ==
    ConnectStep =>
        LET ptr == Head(s_conns').ptr
            calls == SelectSeq(out', LAMBDA c : c.conn = ptr)
            ins == Call("insert_conn", "", 0, ptr, 0)
        IN  /\ Count(calls, ins) = 1
            /\ calls[Len(calls)] = ins
            /\ \A id \in 1 .. Len(s_svcs) :
                   \E i, j \in DOMAIN calls :
                       /\ i < j
                       /\ calls[i] = Call("insert_sess", "", id, ptr, 0)
                       /\ calls[j] = Cb("CONNECT", id, ptr)

\* Every session of a connection has had its connect notification.
Complete(c, heap) ==
    \A id \in Range(c.sessions) :
        \E x \in heap : x.bc = c.ptr /\ x.se = id /\ x.notified = 1

C9_RoutedAfterConnect ==
    \A i \in DOMAIN out' :
        (out'[i].op = "cb" /\ out'[i].kind \in {"READ", "WRITE"}) =>
            \E c \in Range(s_conns) :
                /\ c.ptr = out'[i].conn
                /\ out'[i].svc \in Range(c.sessions)
                /\ Complete(c, sess_heap)

\* C9: while a connect is handled the connection is inserted into the
\* registry after every session was created and notified; every connection
\* in the registry has its full, notified session set; a read or write is
\* routed only to a session of such a connection.
C9_ConnectionLast ==
    [][/\ C9_InsertLast
       /\ \A c \in Range(s_conns') : Complete(c, sess_heap')
       /\ C9_RoutedAfterConnect]_vars

\* A write was routed to a session of a connection that has two sessions.
C9_Witness ==
    /\ ev.kind = "WRITE"
    /\ Ops(out, "cb") # <<>>
    /\ \E c \in Range(s_conns) :
           /\ c.ptr = Ops(out, "cb")[1].conn
           /\ Len(c.sessions) = 2

\* --------------------------------------------------------------------- C10
IsDisconnectCb(c) == c.op = "cb" /\ c.kind = "DISCONNECT"

\* C10 as stated: no session is freed, and the connection is not removed,
\* before every session of the connection had its disconnect notification.
C10_NotifyAllThenFree ==
    [][DisconnectStep =>
          \A i, j \in DOMAIN out' :
              (/\ IsDisconnectCb(out'[i])
               /\ out'[j].op \in {"free_sess", "remove_conn", "free_conn"})
                  => i < j]_vars

\* C10, amended: a session is freed after its own disconnect notification,
\* and the connection is removed and freed after every session was notified
\* and freed.
C10_NotifyThenFreeEach ==
    [][DisconnectStep =>
          /\ \A j \in DOMAIN out' :
                 out'[j].op = "free_sess" =>
                     \E i \in 1 .. j - 1 :
                         out'[i] = Cb("DISCONNECT", out'[j].svc, out'[j].conn)
          /\ \A i, j \in DOMAIN out' :
                 (/\ IsDisconnectCb(out'[i]) \/ out'[i].op = "free_sess"
                  /\ out'[j].op \in {"remove_conn", "free_conn"})
                     => i < j
          /\ Len(Ops(out', "free_sess")) = Len(Addressed.sessions)
          /\ Len(Ops(out', "remove_conn")) = 1]_vars

\* A connection with two sessions was disconnected.
C10_Witness ==
    /\ ev.kind = "DISCONNECT"
    /\ Len(Ops(out, "free_sess")) = 2
    /\ Len(Ops(out, "remove_conn")) = 1

\* --------------------------------------------------------------------- C11
\* The table of service se was requested and its creation failed: the call
\* returned an error or the stack reported a failure status, so no request
\* for it is outstanding and no handles are stored.
Failed(se) ==
    /\ se.registered
    /\ se.attr_handles = <<>>
    /\ \A i \in DOMAIN pending :
           pending[i].handles # StackHandles(se.id, se.num_attrs)

\* The response the dispatcher owes for the access handled by the step.
OwedResponse ==
    IF ev'.kind = "READ"
    THEN IF HandlerAccepted THEN <<>>
         ELSE <<Call("send_response", "READ_NOT_PERMIT", 0, 0, 0)>>
    ELSE <<Call("send_response",
                IF HandlerAccepted THEN "OK" ELSE "WRITE_NOT_PERMIT",
                0, 0, 0)>>

\* C11: once the table creation of service A has failed, A is never started
\* and never requested again, and the other services are unaffected: their
\* table-created events start them, and reads and writes for their handles
\* on open connections reach their handlers and are answered.
C11_FailureLocal ==
    [][\A a \in Range(s_svcs) :
           Failed(a) =>
               /\ Len(s_svcs') >= Len(s_svcs)
               /\ SvcAt(s_svcs', a.id).attr_handles = <<>>
               /\ Count(out', CreateCall(a)) = 0
               /\ (AccessStep /\ Bound # {}) =>
                      /\ \E id \in Bound :
                             \E r \in BOOLEAN :
                                 Ops(out', "cb")
                                     = <<CbRet(ev'.kind, id, Addressed.ptr, r)>>
                      /\ Ops(out', "send_response") = OwedResponse
               /\ TabStep =>
                      \A b \in Range(s_svcs) :
                          (b.id # a.id /\ Reports(b) /\ FirstMatch(b))
                              => StartedBy(b)]_vars

\* --------------------------------------------------------------------- C12
\* Some connection of the registry after the step has the identity of the
\* event handled.
StillMatching ==
    \E c \in Range(s_conns') :
        c.gatt_if = ev'.gatt_if /\ c.conn_id = ev'.conn_id

\* C12: a disconnect event that matches no connection leaves the
\* connections, sessions and services as they are and invokes no handler;
\* and after a disconnect event that did match, no connection matches it any
\* more, so that delivering it again changes nothing.
C12_UnknownDisconnectNoOp ==
    [][/\ (ev'.kind = "DISCONNECT" /\ Matching = {}) =>
              /\ s_conns' = s_conns
              /\ sess_heap' = sess_heap
              /\ s_svcs' = s_svcs
              /\ \A i \in DOMAIN out' : out'[i].op = "start_advertising"
       /\ DisconnectStep => ~StillMatching]_vars

\* --------------------------------------------------------------------- C15
\* C15: no two connections of the registry have the same gatt_if and
\* conn_id.
C15_UniqueIdentity ==
    \A i, j \in DOMAIN s_conns :
        (/\ s_conns[i].gatt_if = s_conns[j].gatt_if
         /\ s_conns[i].conn_id = s_conns[j].conn_id) => i = j

\* --------------------------------------------------------------------- C13
\* No handler is invoked and the registries are left as they are.
NotRouted ==
    /\ Ops(out', "cb") = <<>>
    /\ ~crashed'
    /\ s_conns' = s_conns /\ sess_heap' = sess_heap /\ s_svcs' = s_svcs

\* C13 as stated: a read or write that requires a response and addresses an
\* identity whose connection was torn down (none of the registry matches)
\* invokes no handler and gets no response.
C13_StaleNoResponse ==
    [][(AccessStep /\ Matching = {}) =>
          /\ NotRouted
          /\ Ops(out', "send_response") = <<>>]_vars

\* C13, amended: such a request invokes no handler and gets exactly one
\* response, the deny status of its kind.
C13_StaleDenied ==
    [][(AccessStep /\ Matching = {}) =>
          /\ NotRouted
          /\ out' = <<Call("send_response", DenyStatus, 0, 0, 0)>>]_vars

\* A request for an identity that was open and has been disconnected was
\* denied: the only connection left is the second entry allocated, so the
\* first was torn down, and by a disconnect event that did not match the
\* one left - it had the identity the request addresses.
C13_Witness ==
    /\ ev.kind \in {"READ", "WRITE"}
    /\ ev.flag
    /\ Len(s_conns) = 1
    /\ s_conns[1].ptr = 2
    /\ s_conns[1].conn_id # ev.conn_id
    /\ Len(Ops(out, "send_response")) = 1

\* --------------------------------------------------------------------- C14
StartsAdvertising == Len(Ops(out', "start_advertising"))

C16_FlagMeansHandles ==
    \A se \in Range(s_svcs) :
        Len(se.attr_handles) = IF se.registered THEN se.num_attrs ELSE 0

\* C16, amended: a service whose flag is clear has no handles; a service
\* that has handles has exactly num_attrs of them and its flag is set. The
\* flag is set from the moment the table is requested, before any handle is
\* stored.
C16_HandlesMeanFlag ==
    \A se \in Range(s_svcs) :
        /\ ~se.registered => se.attr_handles = <<>>
        /\ se.attr_handles # <<>> =>
               se.registered /\ Len(se.attr_handles) = se.num_attrs

\* One service has its full table stored; another has its flag set, its
\* request outstanding, and no handles yet.
C16_Witness ==
    /\ \E se \in Range(s_svcs) :
           se.registered /\ Len(se.attr_handles) = MaxAttrs
    /\ \E se \in Range(s_svcs) : se.registered /\ se.attr_handles = <<>>
    /\ pending # <<>>

\* --------------------------------------------------------------------- C17
\* The step handled a connect event during which an allocation failed.
AllocFailStep == ev'.kind = "CONNECT" /\ ev'.status = 1

\* C17: when the allocation of the connection or of one of its sessions
\* fails while a connect is handled, the attempt is aborted: the firmware
\* does not fault, no connection is inserted and no session of it remains.
C17_AllocFailureAborts ==
    [][AllocFailStep =>
          /\ ~crashed'
          /\ s_conns' = s_conns
          /\ sess_heap' = sess_heap]_vars

\* --------------------------------------------------------------------- C18
\* C18: a read or write for which the peer requested no response invokes no
\* handler, sends no response and leaves the services, connections and
\* sessions as they are.
C18_NoResponseNoAction ==
    [][(ev'.kind \in {"READ", "WRITE"} /\ ~ev'.flag) =>
          /\ out' = <<>>
          /\ ~crashed'
          /\ s_svcs' = s_svcs
          /\ s_conns' = s_conns
          /\ sess_heap' = sess_heap]_vars

\* A write without response request was handled for a handle that a
\* service has stored, on a connection where that service has a session.
C18_Witness ==
    /\ ev.kind = "WRITE"
    /\ ~ev.flag
    /\ out = <<>>
    /\ \E c \in Range(s_conns), se \in Range(s_svcs) :
           /\ c.gatt_if = ev.gatt_if /\ c.conn_id = ev.conn_id
           /\ ev.handle \in Range(se.attr_handles)
           /\ se.id \in Range(c.sessions)

\* --------------------------------------------------------------------- C19
\* The event handled is a table-created event that has a failure status, or
\* a UUID no service carries, or a handle count that differs from the
\* attribute count of the service found for its UUID.
Rejected ==
    /\ ev'.kind = "CREAT_ATTR_TAB"
    /\ \/ ev'.status # 0
       \/ \A se \in Range(s_svcs) : se.uuid # ev'.uuid
       \/ \E se \in Range(s_svcs) :
              /\ se.uuid = ev'.uuid /\ FirstMatch(se)
              /\ se.num_attrs # Len(ev'.handles)

\* C19: the handle list of a service changes, and its handler gets the
\* table-ready notification, only in a step that handles a successful
\* table-created event with the UUID and the attribute count of that
\* service; a rejected table-created event changes no service, notifies no
\* handler and starts no service.
C19_OnlyMatchingEventApplies ==
    [][/\ ~crashed' =>
              \A se \in Range(s_svcs) :
                  (\/ SvcAt(s_svcs', se.id).attr_handles # se.attr_handles
                   \/ Count(out', Cb("CREAT_ATTR_TAB", se.id, NULL)) > 0
                   \/ Ops(out', "start_service") # <<>> /\ out'[1].svc = se.id)
                      => TabStep /\ Reports(se)
       /\ Rejected => s_svcs' = s_svcs /\ out' = <<>>]_vars

\* A successful table-created event for the UUID of a registered service
\* was ignored on its handle count.
C19_Witness ==
    /\ ev.kind = "CREAT_ATTR_TAB"
    /\ ev.status = 0
    /\ out = <<>>
    /\ \E se \in Range(s_svcs) : se.uuid = ev.uuid /\ se.attr_handles = <<>>

\* --------------------------------------------------------------------- C20
\* Service id has had its table requested before the step.
Requested(id) == id \in 1 .. Len(s_svcs) /\ Svc(id).registered

\* C20: a create-attribute-table call is issued only while the stack is
\* registered, only for a service not requested before, and marks it as
\* requested for good, so that no service is requested twice; registering a
\* service before the stack is ready issues no call, and the REG event
\* issues exactly one call for every service not yet requested.
C20_RequestedOnce ==
    [][/\ \A i \in DOMAIN out' :
              out'[i].op = "create_attr_tab" =>
                  /\ s_gatts_registered'
                  /\ Count(out', out'[i]) = 1
                  /\ ~Requested(out'[i].svc)
                  /\ SvcAt(s_svcs', out'[i].svc).registered
       /\ ~crashed' =>
              \A se \in Range(s_svcs) :
                  se.registered => SvcAt(s_svcs', se.id).registered
       /\ (ev'.kind = "REGISTER_SERVICE" /\ ~s_gatts_registered) => out' = <<>>
       /\ ev'.kind = "REG" =>
              \A se \in Range(s_svcs) :
                  Count(out', CreateCall(se)) = IF se.registered THEN 0 ELSE 1]_vars

\* A service was registered while the stack was ready and another service
\* had been requested before: the call was issued for the new one only.
C20_Witness ==
    /\ ev.kind = "REGISTER_SERVICE"
    /\ s_gatts_registered
    /\ Len(s_svcs) = 2
    /\ out = <<CreateCall(s_svcs[1])>>
    /\ s_svcs[2].registered

\* --------------------------------------------------------------------- C21
\* The entries of s_svcs the handle lookup of the step reads: every entry
\* up to the first one whose stored handles hold the handle addressed.
Scanned ==
    {k \in DOMAIN s_svcs :
        \A j \in 1 .. k - 1 : ev'.handle \notin Range(s_svcs[j].attr_handles)}

\* C21: whenever a read or write that requires a response is routed on an
\* open connection, every service the handle lookup scans has a handle
\* list stored.
C21_NoNullHandleListRead ==
    [][(AccessStep /\ Matching # {}) =>
          \A k \in Scanned : s_svcs[k].attr_handles # <<>>]_vars

\* --------------------------------------------------------------------- C22
\* C22: no start-advertising call is issued by a step that is handled while
\* the advertising enable flag is false.
C22_AdvertisingGated ==
    [][~ev'.adv => Ops(out', "start_advertising") = <<>>]_vars

====
